---- MODULE Spec2Model ----
(***************************************************************************)
(* Pixel Bender bytecode decoder (render/src/pixel_bender.rs).             *)
(*                                                                         *)
(* The input buffer is a sequence of bytes.  Strings are kept as their     *)
(* UTF-8 byte sequences (the storage of a Rust String), floats as the      *)
(* 32-bit pattern read from the buffer, signed integers as their value.    *)
(***************************************************************************)
EXTENDS Integers, Sequences, FiniteSets, TLC

VARIABLES data, shader, metadata, result, trace, regIn, regOut

vars == <<data, shader, metadata, result, trace, regIn, regOut>>

----------------------------------------------------------------------------
(* Bit arithmetic on unsigned integers                                      *)

RECURSIVE BitAnd(_, _)
BitAnd(a, b) ==
    IF a = 0 \/ b = 0 THEN 0
    ELSE (IF a % 2 = 1 /\ b % 2 = 1 THEN 1 ELSE 0) + 2 * BitAnd(a \div 2, b \div 2)

Shr(a, n) == a \div (2 ^ n)

Drop_noadvance_bug(d, n) == d

\* the reader advancing over n bytes of the slice
Drop(d, n) == SubSeq(d, n + 1, Len(d))

----------------------------------------------------------------------------
(* Channels and registers                                                   *)

RGBA == <<"R", "G", "B", "A">>

read_src_reg_shift_bug(val, size) ==
    LET swizzle == Shr(val, 16)
        channels == [i \in 1..size |->
                        RGBA[BitAnd(Shr(swizzle, (i - 1) * 2), 3) + 1]]
        kind == IF BitAnd(val, 32768) # 0 THEN "Int" ELSE "Float"
    IN  [index |-> BitAnd(val, 32767), channels |-> channels, kind |-> kind]

\* fn read_src_reg(val: u32, size: u8); size is 1..4 at every call site
read_src_reg(val, size) ==
    LET swizzle == Shr(val, 16)
        channels == [i \in 1..size |->
                        RGBA[BitAnd(Shr(swizzle, 6 - (i - 1) * 2), 3) + 1]]
        kind == IF BitAnd(val, 32768) # 0 THEN "Int" ELSE "Float"
    IN  [index |-> BitAnd(val, 32767), channels |-> channels, kind |-> kind]

read_dst_reg_order_bug(val, mask) ==
    LET c1 == IF BitAnd(mask, 1) # 0 THEN <<"R">> ELSE <<>>
        c2 == IF BitAnd(mask, 2) # 0 THEN <<"G">> ELSE <<>>
        c3 == IF BitAnd(mask, 4) # 0 THEN <<"B">> ELSE <<>>
        c4 == IF BitAnd(mask, 8) # 0 THEN <<"A">> ELSE <<>>
        kind == IF BitAnd(val, 32768) # 0 THEN "Int" ELSE "Float"
    IN  [index |-> BitAnd(val, 32767), channels |-> c1 \o c2 \o c3 \o c4,
         kind |-> kind]

\* fn read_dst_reg(val: u16, mask: u8)
read_dst_reg(val, mask) ==
    LET c1 == IF BitAnd(mask, 8) # 0 THEN <<"R">> ELSE <<>>
        c2 == IF BitAnd(mask, 4) # 0 THEN <<"G">> ELSE <<>>
        c3 == IF BitAnd(mask, 2) # 0 THEN <<"B">> ELSE <<>>
        c4 == IF BitAnd(mask, 1) # 0 THEN <<"A">> ELSE <<>>
        kind == IF BitAnd(val, 32768) # 0 THEN "Int" ELSE "Float"
    IN  [index |-> BitAnd(val, 32767), channels |-> c1 \o c2 \o c3 \o c4,
         kind |-> kind]

----------------------------------------------------------------------------
(* Primitive reads.  Each takes the unread bytes d and yields              *)
(* [ok, val, rest]; ok = FALSE is the io error UnexpectedEof.               *)

ReadFail(d) == [ok |-> FALSE, val |-> 0, rest |-> d]

read_u8(d) ==
    IF Len(d) < 1 THEN ReadFail(d)
    ELSE [ok |-> TRUE, val |-> d[1], rest |-> Drop(d, 1)]

read_u16_le(d) ==
    IF Len(d) < 2 THEN ReadFail(d)
    ELSE [ok |-> TRUE, val |-> d[1] + 256 * d[2], rest |-> Drop(d, 2)]

\* The model's integers are 32-bit signed: a 32-bit pattern is kept as the
\* i32 with that pattern (b3 is the most significant byte), so a u32 is zero
\* iff its model value is zero, and an i32 is its own value.
Word32(b0, b1, b2, b3) ==
    b0 + 256 * b1 + 65536 * b2
       + 16777216 * (IF b3 >= 128 THEN b3 - 256 ELSE b3)

read_u32_le(d) ==
    IF Len(d) < 4 THEN ReadFail(d)
    ELSE [ok |-> TRUE, val |-> Word32(d[1], d[2], d[3], d[4]),
          rest |-> Drop(d, 4)]

read_i16_le(d) ==
    LET u == read_u16_le(d)
    IN  IF u.ok /\ u.val >= 32768 THEN [u EXCEPT !.val = @ - 65536] ELSE u

read_i32_le(d) ==
    IF Len(d) < 4 THEN ReadFail(d)
    ELSE [ok |-> TRUE, val |-> Word32(d[1], d[2], d[3], d[4]),
          rest |-> Drop(d, 4)]

\* three read_u8 calls, ch1 | ch2 << 8 | ch3 << 16
read_uint24(d) ==
    IF Len(d) < 3 THEN ReadFail(d)
    ELSE [ok |-> TRUE, val |-> d[1] + 256 * d[2] + 65536 * d[3],
          rest |-> Drop(d, 3)]

\* read_f32::<BigEndian>: the value is kept as its 32-bit pattern, the
\* first byte of the buffer being the most significant
read_float(d) ==
    IF Len(d) < 4 THEN ReadFail(d)
    ELSE [ok |-> TRUE,
          val |-> Word32(d[4], d[3], d[2], d[1]),
          rest |-> Drop(d, 4)]

\* String::push(b as char): the UTF-8 encoding of the code point U+00b
CharUtf8(b) ==
    IF b < 128 THEN <<b>> ELSE <<192 + (b \div 64), 128 + (b % 64)>>

RECURSIVE read_string_loop(_, _)
read_string_loop(d, string) ==
    IF Len(d) < 1 THEN [ok |-> FALSE, val |-> <<>>, rest |-> d]
    ELSE IF d[1] = 0 THEN [ok |-> TRUE, val |-> string, rest |-> Drop(d, 1)]
    ELSE read_string_loop(Drop(d, 1), string \o CharUtf8(d[1]))

read_string(d) == read_string_loop(d, <<>>)

RECURSIVE read_floats(_, _, _)
read_floats(d, n, acc) ==
    IF n = 0 THEN [ok |-> TRUE, val |-> acc, rest |-> d]
    ELSE LET f == read_float(d)
         IN  IF ~f.ok THEN [ok |-> FALSE, val |-> <<>>, rest |-> d]
             ELSE read_floats(f.rest, n - 1, Append(acc, f.val))

RECURSIVE read_ints(_, _, _)
read_ints(d, n, acc) ==
    IF n = 0 THEN [ok |-> TRUE, val |-> acc, rest |-> d]
    ELSE LET f == read_i16_le(d)
         IN  IF ~f.ok THEN [ok |-> FALSE, val |-> <<>>, rest |-> d]
             ELSE read_ints(f.rest, n - 1, Append(acc, f.val))

\* PixelBenderTypeOpcode discriminants
TFloat == 1
TFloat2 == 2
TFloat3 == 3
TFloat4 == 4
TFloat2x2 == 5
TFloat3x3 == 6
TFloat4x4 == 7
TInt == 8
TInt2 == 9
TInt3 == 10
TInt4 == 11
TString == 12

\* PixelBenderTypeOpcode::from_u8(b).is_some()
TypeOpcodeKnown(b) == b \in 1..12

\* PixelBenderParamQualifier::from_u8(b).is_some()
QualifierKnown(b) == b \in {1, 2}

\* fn read_value(data, opcode): a value is [ty, v], v the payload sequence
read_value(d, opcode) ==
    LET r == CASE opcode = TFloat    -> read_floats(d, 1, <<>>)
               [] opcode = TFloat2   -> read_floats(d, 2, <<>>)
               [] opcode = TFloat3   -> read_floats(d, 3, <<>>)
               [] opcode = TFloat4   -> read_floats(d, 4, <<>>)
               [] opcode = TFloat2x2 -> read_floats(d, 4, <<>>)
               [] opcode = TFloat3x3 -> read_floats(d, 9, <<>>)
               [] opcode = TFloat4x4 -> read_floats(d, 16, <<>>)
               [] opcode = TInt      -> read_ints(d, 1, <<>>)
               [] opcode = TInt2     -> read_ints(d, 2, <<>>)
               [] opcode = TInt3     -> read_ints(d, 3, <<>>)
               [] opcode = TInt4     -> read_ints(d, 4, <<>>)
               [] opcode = TString   -> read_string(d)
    IN  [ok |-> r.ok, val |-> [ty |-> opcode, v |-> r.val], rest |-> r.rest]

----------------------------------------------------------------------------
(* String::from_utf8: well-formed UTF-8 (no overlong forms, no surrogates,  *)
(* nothing above U+10FFFF)                                                  *)

IsCont(d, i) == i <= Len(d) /\ d[i] \in 128..191

RECURSIVE Utf8Valid(_)
Utf8Valid(d) ==
    IF d = <<>> THEN TRUE
    ELSE LET b == d[1] IN
      CASE b \in 0..127 -> Utf8Valid(Drop(d, 1))
        [] b \in 194..223 -> IsCont(d, 2) /\ Utf8Valid(Drop(d, 2))
        [] b = 224 -> Len(d) >= 3 /\ d[2] \in 160..191 /\ IsCont(d, 3)
                      /\ Utf8Valid(Drop(d, 3))
        [] b \in (225..236) \cup {238, 239} ->
                      IsCont(d, 2) /\ IsCont(d, 3) /\ Utf8Valid(Drop(d, 3))
        [] b = 237 -> Len(d) >= 3 /\ d[2] \in 128..159 /\ IsCont(d, 3)
                      /\ Utf8Valid(Drop(d, 3))
        [] b = 240 -> Len(d) >= 4 /\ d[2] \in 144..191 /\ IsCont(d, 3)
                      /\ IsCont(d, 4) /\ Utf8Valid(Drop(d, 4))
        [] b \in 241..243 -> IsCont(d, 2) /\ IsCont(d, 3) /\ IsCont(d, 4)
                      /\ Utf8Valid(Drop(d, 4))
        [] b = 244 -> Len(d) >= 4 /\ d[2] \in 128..143 /\ IsCont(d, 3)
                      /\ IsCont(d, 4) /\ Utf8Valid(Drop(d, 4))
        [] OTHER -> FALSE

----------------------------------------------------------------------------
(* Opcode discriminants                                                     *)

OpNop == 0
OpSampleNearest == 48
OpSampleLinear == 49
OpLoadIntOrFloat == 50
OpLoop == 51
OpIf == 52
OpElse == 53
OpEndIf == 54
OpPBJMeta1 == 160
OpPBJParam == 161
OpPBJMeta2 == 162
OpPBJParamTexture == 163
OpName == 164
OpVersion == 165

\* Opcode::from_u8(raw).is_some(): the enum has 0x00..0x3E and 0xA0..0xA5
OpcodeKnown(raw) == raw \in 0..62 \/ raw \in 160..165

----------------------------------------------------------------------------
(* Outcome of a call: Ok, a returned Err, or a panic, with the locals as    *)
(* they were when the call ended.  After a failure the buffer goes out of   *)
(* scope in parse_shader; the data field then holds the bytes that were     *)
(* unread when the failing field or check began.                            *)

Ok(d, s, m) ==
    [tag |-> "Ok", error |-> "", data |-> d, shader |-> s, metadata |-> m]

Err(e, d, s, m) ==
    [tag |-> "Err", error |-> e, data |-> d, shader |-> s, metadata |-> m]

Panic(e, d, s, m) ==
    [tag |-> "Panic", error |-> e, data |-> d, shader |-> s, metadata |-> m]

Eof == "UnexpectedEof"
AssertZero == "assertion failed: must be zero"

apply_metadata_drop_bug(s, m) ==
    LET n == Len(s.params) IN
    IF n = 0 THEN Ok(<<>>, [s EXCEPT !.metadata = m], <<>>)
    ELSE IF s.params[n].kind = "Normal"
    THEN Ok(<<>>, s, <<>>)
    ELSE IF m # <<>>
         THEN Panic("Tried to apply metadata to texture parameter",
                    <<>>, s, <<>>)
         ELSE Ok(<<>>, s, <<>>)

apply_metadata_program_bug(s, m) ==
    LET n == Len(s.params) IN
    IF n = 0 \/ s.params[n].kind = "Normal"
    THEN Ok(<<>>, [s EXCEPT !.metadata = @ \o m], <<>>)
    ELSE IF m # <<>>
         THEN Panic("Tried to apply metadata to texture parameter",
                    <<>>, s, <<>>)
         ELSE Ok(<<>>, s, <<>>)

apply_metadata_texture_bug(s, m) ==
    LET n == Len(s.params) IN
    IF n = 0 THEN Ok(<<>>, [s EXCEPT !.metadata = m], <<>>)
    ELSE IF s.params[n].kind = "Normal"
    THEN Ok(<<>>, [s EXCEPT !.params[n].metadata = m], <<>>)
    ELSE Ok(<<>>, s, <<>>)

\* fn apply_metadata(shader, metadata): std::mem::take empties the pending
\* list, whatever the target is.  The outcome's data field is unused.
apply_metadata(s, m) ==
    LET n == Len(s.params) IN
    IF n = 0 THEN Ok(<<>>, [s EXCEPT !.metadata = m], <<>>)
    ELSE IF s.params[n].kind = "Normal"
    THEN Ok(<<>>, [s EXCEPT !.params[n].metadata = m], <<>>)
    ELSE IF m # <<>>
         THEN Panic("Tried to apply metadata to texture parameter",
                    <<>>, s, <<>>)
         ELSE Ok(<<>>, s, <<>>)

PushOp(s, o) == [s EXCEPT !.operations = Append(@, o)]

PushParam(s, p) == [s EXCEPT !.params = Append(@, p)]

----------------------------------------------------------------------------
(* read_op, one operator per match arm; d is the buffer after the opcode    *)
(* byte, s the shader under construction, m the pending metadata.           *)

\* Opcode::Nop
read_op_Nop(d, s, m) ==
    LET a == read_u32_le(d) IN
    IF ~a.ok THEN Err(Eof, d, s, m)
    ELSE IF a.val # 0 THEN Panic(AssertZero, a.rest, s, m)
    ELSE LET b == read_u16_le(a.rest) IN
    IF ~b.ok THEN Err(Eof, a.rest, s, m)
    ELSE IF b.val # 0 THEN Panic(AssertZero, b.rest, s, m)
    ELSE Ok(b.rest, PushOp(s, [op |-> "Nop"]), m)

read_op_Meta_front_bug(d, s, m) ==
    LET meta_type == read_u8(d) IN
    IF ~meta_type.ok THEN Err(Eof, d, s, m)
    ELSE LET meta_key == read_string(meta_type.rest) IN
    IF ~meta_key.ok THEN Err(Eof, meta_type.rest, s, m)
    ELSE IF ~TypeOpcodeKnown(meta_type.val)
    THEN Panic("Unexpected meta type", meta_key.rest, s, m)
    ELSE LET meta_value == read_value(meta_key.rest, meta_type.val) IN
    IF ~meta_value.ok THEN Err(Eof, meta_key.rest, s, m)
    ELSE Ok(meta_value.rest, s,
            <<[key |-> meta_key.val, value |-> meta_value.val]>> \o m)

\* Opcode::PBJMeta1 | Opcode::PBJMeta2
read_op_Meta(d, s, m) ==
    LET meta_type == read_u8(d) IN
    IF ~meta_type.ok THEN Err(Eof, d, s, m)
    ELSE LET meta_key == read_string(meta_type.rest) IN
    IF ~meta_key.ok THEN Err(Eof, meta_type.rest, s, m)
    ELSE IF ~TypeOpcodeKnown(meta_type.val)
    THEN Panic("Unexpected meta type", meta_key.rest, s, m)
    ELSE LET meta_value == read_value(meta_key.rest, meta_type.val) IN
    IF ~meta_value.ok THEN Err(Eof, meta_key.rest, s, m)
    ELSE Ok(meta_value.rest, s,
            Append(m, [key |-> meta_key.val, value |-> meta_value.val]))

read_op_Param_matrix_bug(d, s, m) ==
    LET qualifier == read_u8(d)
        param_type == read_u8(qualifier.rest)
        reg == read_u16_le(param_type.rest)
        mask == read_u8(reg.rest)
        name == read_string(mask.rest)
    IN
    IF ~(qualifier.ok /\ param_type.ok /\ reg.ok /\ mask.ok /\ name.ok)
    THEN Err(Eof, d, s, m)
    ELSE IF ~TypeOpcodeKnown(param_type.val)
    THEN Panic("Unexpected param type", name.rest, s, m)
    ELSE IF ~QualifierKnown(qualifier.val)
    THEN Panic("Unexpected param qualifier", name.rest, s, m)
    ELSE LET f == apply_metadata(s, m) IN
    IF f.tag = "Panic" THEN Panic(f.error, name.rest, f.shader, f.metadata)
    ELSE IF param_type.val = TFloat4x4
    THEN Panic("Unsupported param type", name.rest, f.shader, f.metadata)
    ELSE Ok(name.rest,
            PushParam(f.shader,
                      [kind |-> "Normal",
                       qualifier |-> qualifier.val,
                       param_type |-> param_type.val,
                       reg |-> read_dst_reg(reg.val, mask.val),
                       name |-> name.val,
                       metadata |-> <<>>]),
            f.metadata)

\* Opcode::PBJParam
read_op_Param(d, s, m) ==
    LET qualifier == read_u8(d)
        param_type == read_u8(qualifier.rest)
        reg == read_u16_le(param_type.rest)
        mask == read_u8(reg.rest)
        name == read_string(mask.rest)
    IN
    IF ~(qualifier.ok /\ param_type.ok /\ reg.ok /\ mask.ok /\ name.ok)
    THEN Err(Eof, d, s, m)
    ELSE IF ~TypeOpcodeKnown(param_type.val)
    THEN Panic("Unexpected param type", name.rest, s, m)
    ELSE IF ~QualifierKnown(qualifier.val)
    THEN Panic("Unexpected param qualifier", name.rest, s, m)
    ELSE LET f == apply_metadata(s, m) IN
    IF f.tag = "Panic" THEN Panic(f.error, name.rest, f.shader, f.metadata)
    ELSE IF param_type.val \in {TFloat2x2, TFloat3x3, TFloat4x4}
    THEN Panic("Unsupported param type", name.rest, f.shader, f.metadata)
    ELSE Ok(name.rest,
            PushParam(f.shader,
                      [kind |-> "Normal",
                       qualifier |-> qualifier.val,
                       param_type |-> param_type.val,
                       reg |-> read_dst_reg(reg.val, mask.val),
                       name |-> name.val,
                       metadata |-> <<>>]),
            f.metadata)

\* Opcode::PBJParamTexture
read_op_ParamTexture(d, s, m) ==
    LET index == read_u8(d)
        channels == read_u8(index.rest)
        name == read_string(channels.rest)
    IN
    IF ~(index.ok /\ channels.ok /\ name.ok) THEN Err(Eof, d, s, m)
    ELSE LET f == apply_metadata(s, m) IN
    IF f.tag = "Panic" THEN Panic(f.error, name.rest, f.shader, f.metadata)
    ELSE Ok(name.rest,
            PushParam(f.shader,
                      [kind |-> "Texture",
                       index |-> index.val,
                       channels |-> channels.val,
                       name |-> name.val]),
            f.metadata)

\* Opcode::Name
read_op_Name(d, s, m) ==
    LET len == read_u16_le(d) IN
    IF ~len.ok THEN Err(Eof, d, s, m)
    ELSE IF Len(len.rest) < len.val THEN Err(Eof, len.rest, s, m)
    ELSE LET string_bytes == SubSeq(len.rest, 1, len.val)
             rest == Drop(len.rest, len.val)
         IN  IF ~Utf8Valid(string_bytes) THEN Err("FromUtf8Error", rest, s, m)
             ELSE Ok(rest, [s EXCEPT !.name = string_bytes], m)

\* Opcode::Version
read_op_Version(d, s, m) ==
    LET v == read_i32_le(d) IN
    IF ~v.ok THEN Err(Eof, d, s, m)
    ELSE Ok(v.rest, [s EXCEPT !.version = v.val], m)

\* Opcode::If
read_op_If(d, s, m) ==
    LET z == read_uint24(d) IN
    IF ~z.ok THEN Err(Eof, d, s, m)
    ELSE IF z.val # 0 THEN Panic(AssertZero, z.rest, s, m)
    ELSE LET src == read_uint24(z.rest) IN
    IF ~src.ok THEN Err(Eof, z.rest, s, m)
    ELSE LET t == read_u8(src.rest) IN
    IF ~t.ok THEN Err(Eof, src.rest, s, m)
    ELSE IF t.val # 0 THEN Panic(AssertZero, t.rest, s, m)
    ELSE Ok(t.rest, PushOp(s, [op |-> "If", src |-> read_src_reg(src.val, 1)]),
            m)

read_op_ElseEndIf_nocheck_bug(d, s, m, marker) ==
    LET a == read_u32_le(d) IN
    IF ~a.ok THEN Err(Eof, d, s, m)
    ELSE LET b == read_uint24(a.rest) IN
    IF ~b.ok THEN Err(Eof, a.rest, s, m)
    ELSE Ok(b.rest, PushOp(s, [op |-> marker]), m)

\* Opcode::Else and Opcode::EndIf (marker names the operation pushed)
read_op_ElseEndIf(d, s, m, marker) ==
    LET a == read_u32_le(d) IN
    IF ~a.ok THEN Err(Eof, d, s, m)
    ELSE IF a.val # 0 THEN Panic(AssertZero, a.rest, s, m)
    ELSE LET b == read_uint24(a.rest) IN
    IF ~b.ok THEN Err(Eof, a.rest, s, m)
    ELSE IF b.val # 0 THEN Panic(AssertZero, b.rest, s, m)
    ELSE Ok(b.rest, PushOp(s, [op |-> marker]), m)

read_op_LoadIntOrFloat_mask_bug(d, s, m) ==
    LET dst == read_u16_le(d) IN
    IF ~dst.ok THEN Err(Eof, d, s, m)
    ELSE LET mask == read_u8(dst.rest) IN
    IF ~mask.ok THEN Err(Eof, dst.rest, s, m)
    ELSE IF BitAnd(mask.val, 15) # 0 THEN Panic(AssertZero, mask.rest, s, m)
    ELSE LET dst_reg == read_dst_reg(dst.val, mask.val) IN
    IF dst_reg.kind = "Float"
    THEN LET val == read_float(mask.rest) IN
         IF ~val.ok THEN Err(Eof, mask.rest, s, m)
         ELSE Ok(val.rest,
                 PushOp(s, [op |-> "LoadFloat", dst |-> dst_reg,
                            val |-> val.val]), m)
    ELSE LET val == read_i32_le(mask.rest) IN
         IF ~val.ok THEN Err(Eof, mask.rest, s, m)
         ELSE Ok(val.rest,
                 PushOp(s, [op |-> "LoadInt", dst |-> dst_reg,
                            val |-> val.val]), m)

\* Opcode::LoadIntOrFloat
read_op_LoadIntOrFloat(d, s, m) ==
    LET dst == read_u16_le(d) IN
    IF ~dst.ok THEN Err(Eof, d, s, m)
    ELSE LET mask == read_u8(dst.rest) IN
    IF ~mask.ok THEN Err(Eof, dst.rest, s, m)
    ELSE IF BitAnd(mask.val, 15) # 0 THEN Panic(AssertZero, mask.rest, s, m)
    ELSE LET dst_reg == read_dst_reg(dst.val, Shr(mask.val, 4)) IN
    IF dst_reg.kind = "Float"
    THEN LET val == read_float(mask.rest) IN
         IF ~val.ok THEN Err(Eof, mask.rest, s, m)
         ELSE Ok(val.rest,
                 PushOp(s, [op |-> "LoadFloat", dst |-> dst_reg,
                            val |-> val.val]), m)
    ELSE LET val == read_i32_le(mask.rest) IN
         IF ~val.ok THEN Err(Eof, mask.rest, s, m)
         ELSE Ok(val.rest,
                 PushOp(s, [op |-> "LoadInt", dst |-> dst_reg,
                            val |-> val.val]), m)

\* Opcode::SampleNearest | Opcode::SampleLinear
read_op_Sample(d, s, m, opcode) ==
    LET dst == read_u16_le(d)
        mask == read_u8(dst.rest)
        src == read_uint24(mask.rest)
        tf == read_u8(src.rest)
    IN
    IF ~(dst.ok /\ mask.ok /\ src.ok /\ tf.ok) THEN Err(Eof, d, s, m)
    ELSE Ok(tf.rest,
            PushOp(s, [op |-> IF opcode = OpSampleNearest
                              THEN "SampleNearest" ELSE "SampleLinear",
                       dst |-> read_dst_reg(dst.val, Shr(mask.val, 4)),
                       src |-> read_src_reg(src.val, 2),
                       tf |-> tf.val]),
            m)

read_op_Normal_size_bug(d, s, m, opcode) ==
    LET dst == read_u16_le(d)
        mask == read_u8(dst.rest)
        size == BitAnd(mask.val, 3)
        matrix == BitAnd(Shr(mask.val, 2), 3)
        src == read_uint24(mask.rest)
        t == read_u8(src.rest)
    IN
    IF ~(dst.ok /\ mask.ok /\ src.ok /\ t.ok) THEN Err(Eof, d, s, m)
    ELSE IF t.val # 0 THEN Panic("Unexpected u8 for opcode", t.rest, s, m)
    ELSE IF matrix # 0
    THEN (IF Shr(src.val, 16) # 0 \/ size # 1
          THEN Panic("assertion failed: matrix operand", t.rest, s, m)
          ELSE Panic("Matrix with mask", t.rest, s, m))
    ELSE Ok(t.rest,
            PushOp(s, [op |-> "Normal", opcode |-> opcode,
                       dst |-> read_dst_reg(dst.val, Shr(mask.val, 4)),
                       src |-> read_src_reg(src.val, size)]),
            m)

\* the default arm: every other known opcode
read_op_Normal(d, s, m, opcode) ==
    LET dst == read_u16_le(d)
        mask == read_u8(dst.rest)
        size == BitAnd(mask.val, 3) + 1
        matrix == BitAnd(Shr(mask.val, 2), 3)
        src == read_uint24(mask.rest)
        t == read_u8(src.rest)
    IN
    IF ~(dst.ok /\ mask.ok /\ src.ok /\ t.ok) THEN Err(Eof, d, s, m)
    ELSE IF t.val # 0 THEN Panic("Unexpected u8 for opcode", t.rest, s, m)
    ELSE IF matrix # 0
    THEN (IF Shr(src.val, 16) # 0 \/ size # 1
          THEN Panic("assertion failed: matrix operand", t.rest, s, m)
          ELSE Panic("Matrix with mask", t.rest, s, m))
    ELSE Ok(t.rest,
            PushOp(s, [op |-> "Normal", opcode |-> opcode,
                       dst |-> read_dst_reg(dst.val, Shr(mask.val, 4)),
                       src |-> read_src_reg(src.val, size)]),
            m)

read_op_dispatch_bug(d, s, m) ==
    LET raw == read_u8(d) IN
    IF ~raw.ok THEN Err(Eof, d, s, m)
    ELSE IF ~OpcodeKnown(raw.val) THEN Panic("Unknown opcode", raw.rest, s, m)
    ELSE LET r == raw.rest
             opcode == raw.val
         IN
      CASE opcode = OpNop -> read_op_Nop(r, s, m)
        [] opcode \in {OpPBJMeta1, OpPBJMeta2} -> read_op_Meta(r, s, m)
        [] opcode = OpPBJParam -> read_op_Param(r, s, m)
        [] opcode = OpPBJParamTexture -> read_op_ParamTexture(r, s, m)
        [] opcode = OpName -> read_op_Name(r, s, m)
        [] opcode = OpVersion -> read_op_Version(r, s, m)
        [] opcode = OpIf -> read_op_If(r, s, m)
        [] opcode = OpElse -> read_op_ElseEndIf(r, s, m, "Else")
        [] opcode = OpEndIf -> read_op_ElseEndIf(r, s, m, "EndIf")
        [] opcode = OpLoadIntOrFloat -> read_op_LoadIntOrFloat(r, s, m)
        [] opcode \in {OpSampleNearest, OpSampleLinear} ->
                                         read_op_Sample(r, s, m, opcode)
        [] opcode = OpLoop -> Panic("Unknown opcode", raw.rest, s, m)
        [] OTHER -> read_op_Normal(r, s, m, opcode)

\* fn read_op(data, shader, metadata)
read_op(d, s, m) ==
    LET raw == read_u8(d) IN
    IF ~raw.ok THEN Err(Eof, d, s, m)
    ELSE IF ~OpcodeKnown(raw.val) THEN Panic("Unknown opcode", raw.rest, s, m)
    ELSE LET r == raw.rest
             opcode == raw.val
         IN
      CASE opcode = OpNop -> read_op_Nop(r, s, m)
        [] opcode \in {OpPBJMeta1, OpPBJMeta2} -> read_op_Meta(r, s, m)
        [] opcode = OpPBJParam -> read_op_Param(r, s, m)
        [] opcode = OpPBJParamTexture -> read_op_ParamTexture(r, s, m)
        [] opcode = OpName -> read_op_Name(r, s, m)
        [] opcode = OpVersion -> read_op_Version(r, s, m)
        [] opcode = OpIf -> read_op_If(r, s, m)
        [] opcode = OpElse -> read_op_ElseEndIf(r, s, m, "Else")
        [] opcode = OpEndIf -> read_op_ElseEndIf(r, s, m, "EndIf")
        [] opcode = OpLoadIntOrFloat -> read_op_LoadIntOrFloat(r, s, m)
        [] opcode \in {OpSampleNearest, OpSampleLinear} ->
                                         read_op_Sample(r, s, m, opcode)
        [] OTHER -> read_op_Normal(r, s, m, opcode)

----------------------------------------------------------------------------
(* Input buffers                                                            *)

MaxInstrs == 5
MaxTail == 7
MaxRegLow == 3
MaxLiveInstrs == 3
MaxHeaderInstrs == 4

RECURSIVE Concats(_, _)
Concats(C, n) ==
    IF n = 0 THEN {<<>>}
    ELSE LET P == Concats(C, n - 1) IN P \cup {p \o c : p \in P, c \in C}

RECURSIVE ByteStrings(_, _)
ByteStrings(B, n) ==
    IF n = 0 THEN {<<>>}
    ELSE LET P == ByteStrings(B, n - 1) IN P \cup {Append(p, b) : p \in P, b \in B}

\* PBJMeta1, TInt, key "a", value 5
MetaA == <<160, 8, 97, 0, 5, 0>>
\* PBJMeta2, TString, key "b", value "x"
MetaB == <<162, 12, 98, 0, 120, 0>>
\* PBJParam, Input, TFloat, register 0, mask 0xF, name "p"
ParamN == <<161, 1, 1, 0, 0, 15, 112, 0>>
\* PBJParamTexture, index 0, 4 channels, name "t"
ParamT == <<163, 0, 4, 116, 0>>
\* Nop with zero reserved fields
NopOk == <<0, 0, 0, 0, 0, 0, 0>>
\* the first two bytes of a Version instruction
VersionFragment == <<165, 1>>

Chunks == {MetaA, MetaB, ParamN, ParamT, NopOk, VersionFragment}

ProgramInputs == Concats(Chunks, MaxInstrs)

\* Name "AB"
NameAB == <<164, 2, 0, 65, 66>>
\* Name of one byte that is not UTF-8
NameBad == <<164, 1, 0, 255>>
\* Version 1
VersionOne == <<165, 1, 0, 0, 0>>

HeaderChunks == {MetaA, MetaB, ParamN, NameAB, NameBad, VersionOne}

HeaderInputs == Concats(HeaderChunks, MaxHeaderInstrs)

LoadValues ==
    {<<>>, <<1, 2>>, <<1, 2, 3, 4>>, <<0, 0, 128, 63>>, <<255, 255, 255, 255>>}

\* one LoadIntOrFloat with every mask byte, whole or cut short
LoadInputs ==
    {pre \o <<50, lo, hi, mask>> \o v \o suf :
        pre \in {<<>>, NopOk}, lo \in 0..MaxRegLow, hi \in {0, 127, 128, 255},
        mask \in 0..255, v \in LoadValues, suf \in {<<>>, NopOk}}

\* one generic instruction (Add, Loop, BoolAll) with every mask byte, whole
\* or without its trailing byte
ArithInputs ==
    {SubSeq(<<op, 1, hi, mask, 2, s1, swz, t>>, 1, n) \o suf :
        op \in {1, 51, 62}, hi \in {0, 128}, mask \in 0..255,
        s1 \in {0, 128}, swz \in {0, 27, 228, 255}, t \in {0, 1},
        n \in {7, 8}, suf \in {<<>>, NopOk}}

LiveChunks == {MetaA, ParamT, NopOk, VersionFragment}

LiveInputs == Concats(LiveChunks, MaxLiveInstrs)

\* Loop with zero fields
LoopOk == <<51, 0, 0, 0, 0, 0, 0, 0>>

OpcodeInputs ==
    {<<b>> \o t : b \in 0..255, t \in ByteStrings({0, 1}, MaxTail)}
        \cup {LoopOk \o <<b>> : b \in 0..255}

ParamPrefixes == {<<>>, MetaA, ParamN, ParamT, ParamN \o MetaA, ParamT \o MetaA}

ParamInputs ==
    {pre \o <<161, q, t, r, 128 * k, mask, 112, 0>> \o suf :
        pre \in ParamPrefixes, q \in 0..3, t \in 0..13, r \in 0..MaxRegLow,
        k \in {0, 1}, mask \in {0, 9, 255}, suf \in {<<>>, MetaB, NopOk}}

RegWords == {lo + 16384 * hi : lo \in 0..MaxRegLow, hi \in 0..3}
                \cup {32767, 65535}

DstCalls == [fn : {"dst"}, val : RegWords, arg : 0..255]

SrcCalls ==
    {[fn |-> "src", val |-> w + 65536 * sw, arg |-> n] :
        w \in RegWords, sw \in (0..255) \cup {256, 21930, 32767}, n \in 1..4}

NoCall == [fn |-> "none", val |-> 0, arg |-> 0]

----------------------------------------------------------------------------
(* parse_shader                                                             *)

EmptyShader ==
    [name |-> <<>>, version |-> 0, params |-> <<>>, metadata |-> <<>>,
     operations |-> <<>>]

Running == [tag |-> "None"]

InitOn(inputs) ==
    /\ data \in inputs
    /\ shader = EmptyShader
    /\ metadata = <<>>
    /\ result = Running
    /\ trace = <<>>
    /\ regIn = NoCall
    /\ regOut = <<>>

Init == InitOn(ProgramInputs)

InitOpcode == InitOn(OpcodeInputs)

InitLive == InitOn(LiveInputs)

InitArith == InitOn(ArithInputs)

InitLoad == InitOn(LoadInputs)

InitHeader == InitOn(HeaderInputs)

InitParam == InitOn(ParamInputs)

InitReg ==
    /\ data = <<>>
    /\ shader = EmptyShader
    /\ metadata = <<>>
    /\ result = Running
    /\ trace = <<>>
    /\ regIn \in DstCalls \cup SrcCalls
    /\ regOut = <<>>

ReadOp_ignore_error_bug ==
    /\ result = Running
    /\ data # <<>>
    /\ LET r == read_op(data, shader, metadata) IN
        /\ data' = r.data
        /\ shader' = r.shader
        /\ metadata' = r.metadata
        /\ result' = result
        /\ trace' = Append(trace,
                        [raw |-> data[1], at |-> data, ok |-> r.tag = "Ok",
                         pushed |-> IF r.tag = "Ok" /\ Len(r.metadata) > Len(metadata)
                                    THEN <<r.metadata[Len(r.metadata)]>>
                                    ELSE <<>>])
    /\ UNCHANGED <<regIn, regOut>>

\* one iteration of the loop `while !data.is_empty() { read_op(..)? }`;
\* trace logs the call: the buffer it started at, whether it returned Ok,
\* and the metadata entry it appended to the pending list, if any
ReadOp ==
    /\ result = Running
    /\ data # <<>>
    /\ LET r == read_op(data, shader, metadata) IN
        /\ data' = r.data
        /\ shader' = r.shader
        /\ metadata' = r.metadata
        /\ result' = IF r.tag = "Ok" THEN result
                     ELSE [tag |-> r.tag, error |-> r.error]
        /\ trace' = Append(trace,
                        [raw |-> data[1], at |-> data, ok |-> r.tag = "Ok",
                         pushed |-> IF r.tag = "Ok" /\ Len(r.metadata) > Len(metadata)
                                    THEN <<r.metadata[Len(r.metadata)]>>
                                    ELSE <<>>])
    /\ UNCHANGED <<regIn, regOut>>

\* the loop has ended: the final apply_metadata and `Ok(shader)`
Finish ==
    /\ result = Running
    /\ data = <<>>
    /\ LET f == apply_metadata(shader, metadata) IN
        /\ shader' = f.shader
        /\ metadata' = f.metadata
        /\ result' = IF f.tag = "Ok" THEN [tag |-> "Ok", shader |-> f.shader]
                     ELSE [tag |-> f.tag, error |-> f.error]
    /\ UNCHANGED <<data, trace, regIn, regOut>>

Next == ReadOp \/ Finish

Spec == Init /\ [][Next]_vars

SpecOpcode == InitOpcode /\ [][Next]_vars

SpecParam == InitParam /\ [][Next]_vars

SpecHeader == InitHeader /\ [][Next]_vars

SpecLoad == InitLoad /\ [][Next]_vars

SpecArith == InitArith /\ [][Next]_vars

\* parse_shader is one synchronous call: a step that can be taken is taken
SpecLive == InitLive /\ [][Next]_vars /\ WF_vars(Next)

CallReadDstReg ==
    /\ regIn.fn = "dst"
    /\ regOut = <<>>
    /\ regOut' = <<read_dst_reg(regIn.val, regIn.arg)>>
    /\ UNCHANGED <<data, shader, metadata, result, trace, regIn>>

CallReadSrcReg ==
    /\ regIn.fn = "src"
    /\ regOut = <<>>
    /\ regOut' = <<read_src_reg(regIn.val, regIn.arg)>>
    /\ UNCHANGED <<data, shader, metadata, result, trace, regIn>>

NextReg == CallReadDstReg \/ CallReadSrcReg

SpecReg == InitReg /\ [][NextReg]_vars

----------------------------------------------------------------------------
(* Properties of the register decoders                                      *)

ChannelPos(c) == CHOOSE i \in 1..4 : RGBA[i] = c

HighBitSet(w) == (w \div 32768) % 2 = 1

\* C6: for every 16-bit word W and mask M, read_dst_reg gives index
\* W & 0x7FFF, kind Int iff bit 0x8000 of W is set, and as channels exactly
\* the R,G,B,A whose mask bits 8,4,2,1 are set, in R,G,B,A order; mask bits
\* above 0xF are ignored.
C6_DstRegLaw ==
    (regIn.fn = "dst" /\ regOut # <<>>) =>
        LET W == regIn.val
            M == regIn.arg
            reg == regOut[1]
            ch == reg.channels
        IN  /\ reg.index = W % 32768
            /\ (reg.kind = "Int") <=> HighBitSet(W)
            /\ (reg.kind = "Float") <=> ~HighBitSet(W)
            /\ Len(ch) <= 4
            /\ \A i \in 1..4 :
                  (\E j \in DOMAIN ch : ch[j] = RGBA[i])
                      <=> ((M \div (2 ^ (4 - i))) % 2 = 1)
            /\ \A j, k \in DOMAIN ch :
                  j < k => ChannelPos(ch[j]) < ChannelPos(ch[k])

C6_Witness ==
    /\ regIn = [fn |-> "dst", val |-> 65535, arg |-> 250]
    /\ regOut = <<[index |-> 32767, channels |-> <<"R", "B">>, kind |-> "Int"]>>

\* C7: for every source word W and count N in 1..4, read_src_reg gives
\* exactly N channels, the i-th (from 0) being
\* [R,G,B,A][((W >> 16) >> (6 - 2i)) & 3], index W & 0x7FFF (at most 0x7FFF)
\* and kind Int iff bit 0x8000 of W is set.
C7_SrcRegLaw ==
    (regIn.fn = "src" /\ regOut # <<>>) =>
        LET W == regIn.val
            N == regIn.arg
            reg == regOut[1]
        IN  /\ Len(reg.channels) = N
            /\ \A i \in 0..(N - 1) :
                  reg.channels[i + 1] =
                      RGBA[(((W \div 65536) \div (2 ^ (6 - 2 * i))) % 4) + 1]
            /\ reg.index = W % 32768
            /\ reg.index <= 32767
            /\ (reg.kind = "Int") <=> HighBitSet(W)
            /\ (reg.kind = "Float") <=> ~HighBitSet(W)

C7_Witness ==
    /\ regIn = [fn |-> "src", val |-> 32769 + 65536 * 27, arg |-> 4]
    /\ regOut = <<[index |-> 1, channels |-> <<"R", "G", "B", "A">>,
                   kind |-> "Int"]>>

----------------------------------------------------------------------------
(* Reading the log of read_op calls                                         *)

Failed == result.tag \in {"Err", "Panic"}

IsParamCall(e) == e.ok /\ e.raw \in {OpPBJParam, OpPBJParamTexture}

IsOperationCall(e) == e.ok /\ e.raw \in 0..62

\* positions in the log of the calls that appended a parameter, in order
ParamCalls == SelectSeq([i \in DOMAIN trace |-> i],
                        LAMBDA i : IsParamCall(trace[i]))

\* the number of calls among the first n that satisfy Test
CountCalls(n, Test(_)) == Cardinality({i \in 1..n : Test(trace[i])})

\* the metadata entries decoded by the calls strictly between lo and hi
RECURSIVE PushedBetween(_, _)
PushedBetween(lo, hi) ==
    IF lo + 1 >= hi THEN <<>>
    ELSE trace[lo + 1].pushed \o PushedBetween(lo + 1, hi)

\* where the calls that belong to the K-th parameter end
NextParamCall(k) ==
    IF k < Len(ParamCalls) THEN ParamCalls[k + 1] ELSE Len(trace) + 1

----------------------------------------------------------------------------
(* Metadata association                                                     *)

\* C1: in a successfully decoded program, the metadata of each Normal
\* parameter K is exactly the Meta entries decoded after K's Param opcode and
\* before the next Param/TextureParam opcode or the end of the stream, in
\* stream order.
C1_ParamMetadata ==
    result.tag = "Ok" =>
        LET params == result.shader.params IN
        /\ Len(params) = Len(ParamCalls)
        /\ \A k \in DOMAIN params :
              params[k].kind = "Normal" =>
                  params[k].metadata =
                      PushedBetween(ParamCalls[k], NextParamCall(k))

\* Meta(k1,v1), Meta(k2,v2), Param(p1), Meta(k3,v3), Param(p2), end
C1_Witness ==
    /\ result.tag = "Ok"
    /\ [i \in DOMAIN trace |-> trace[i].raw] = <<160, 162, 161, 160, 161>>
    /\ result.shader.params[1].metadata =
           <<[key |-> <<97>>, value |-> [ty |-> TInt, v |-> <<5>>]]>>
    /\ result.shader.params[2].metadata = <<>>

FirstParamCall == IF ParamCalls = <<>> THEN Len(trace) + 1 ELSE ParamCalls[1]

\* C2: the program-level metadata of a decoded program is exactly the Meta
\* entries decoded before the first Param/TextureParam opcode (all of them
\* when there is no parameter), in stream order; from the moment a first
\* parameter is appended the program-level metadata has that value and no
\* later flush changes it.
C2_ProgramMetadata ==
    /\ shader.params # <<>> => shader.metadata = PushedBetween(0, FirstParamCall)
    /\ result.tag = "Ok" =>
           result.shader.metadata = PushedBetween(0, FirstParamCall)

C2_Witness ==
    /\ result.tag = "Ok"
    /\ [i \in DOMAIN trace |-> trace[i].raw] = <<160, 162, 161, 160, 161>>
    /\ result.shader.metadata =
           <<[key |-> <<97>>, value |-> [ty |-> TInt, v |-> <<5>>]],
             [key |-> <<98>>, value |-> [ty |-> TString, v |-> <<120>>]]>>

LastIsTexture(s) ==
    s.params # <<>> /\ s.params[Len(s.params)].kind = "Texture"

HasZeroFrom(d, i) == \E j \in i..Len(d) : d[j] = 0

\* the buffer d makes the next step reach its flush: the stream has ended, or
\* a TextureParam or Param opcode whose fields are all present and valid
FlushReached(d) ==
    \/ d = <<>>
    \/ d # <<>> /\ d[1] = OpPBJParamTexture /\ HasZeroFrom(d, 4)
    \/ d # <<>> /\ d[1] = OpPBJParam /\ HasZeroFrom(d, 7)
         /\ d[2] \in {1, 2} /\ d[3] \in 1..12

TextureMetadataError == "Tried to apply metadata to texture parameter"

\* C3: a flush (by a Param opcode, a TextureParam opcode or the end of the
\* stream) onto a Texture parameter fails the decode when the pending list
\* is non-empty, and no Program is returned; with an empty pending list the
\* flush succeeds and changes neither the parameters nor the program
\* metadata.
C3_TextureFlush ==
    [][ (result = Running /\ LastIsTexture(shader) /\ FlushReached(data)) =>
          IF metadata # <<>>
          THEN /\ result'.tag = "Panic"
               /\ result'.error = TextureMetadataError
               /\ shader'.params = shader.params
          ELSE /\ ~(result'.tag = "Panic" /\ result'.error = TextureMetadataError)
               /\ SubSeq(shader'.params, 1, Len(shader.params)) = shader.params
               /\ shader'.metadata = shader.metadata
               /\ data = <<>> => result' = [tag |-> "Ok", shader |-> shader]
      ]_vars

C3_Witness ==
    /\ result = [tag |-> "Panic", error |-> TextureMetadataError]
    /\ LastIsTexture(shader)
    /\ trace # <<>>
    /\ trace[Len(trace)].raw = OpPBJParam
    /\ ~trace[Len(trace)].ok

----------------------------------------------------------------------------
(* Failure handling                                                         *)

\* C4: every malformed input (nonzero must-be-zero field, unknown opcode,
\* unknown type tag, invalid qualifier, matrix-typed parameter, matrix-mode
\* instruction, metadata flushed onto a texture parameter) ends in a returned
\* error value, never in a panic.
C4_NeverPanics == result.tag # "Panic"

LastCall == trace[Len(trace)]

\* C5: parse_shader stops at the first call of read_op that fails: no call
\* follows a failed one, the result is then the error alone, and a Program
\* is returned only when the buffer is consumed and the final flush has
\* emptied the pending list.
C5_StopsAtFirstError ==
    /\ \A i \in 1..(Len(trace) - 1) : trace[i].ok
    /\ (trace # <<>> /\ ~LastCall.ok) => Failed
    /\ Failed => DOMAIN result = {"tag", "error"}
    /\ result.tag = "Ok" =>
          /\ data = <<>>
          /\ metadata = <<>>
          /\ \A i \in DOMAIN trace : trace[i].ok
          /\ result.shader = shader

C5_Witness ==
    /\ Failed
    /\ Len(trace) >= 2
    /\ ~LastCall.ok
    /\ data # <<>>
    /\ shader.params # <<>>
    /\ shader.operations # <<>>

IsMatrixParam(d) == d[1] = OpPBJParam /\ Len(d) >= 3 /\ d[3] \in {5, 6, 7}

NoMatrixParam(s) ==
    \A k \in DOMAIN s.params :
        s.params[k].kind = "Normal" => s.params[k].param_type \notin {5, 6, 7}

\* C8: no Normal parameter ever has type Float2x2, Float3x3 or Float4x4,
\* during the decode or in the returned Program: a Param opcode with type tag
\* 5, 6 or 7 fails the decode and appends no parameter.
C8_NoMatrixParam ==
    /\ NoMatrixParam(shader)
    /\ result.tag = "Ok" => NoMatrixParam(result.shader)
    /\ \A i \in DOMAIN trace :
          IsMatrixParam(trace[i].at) => (~trace[i].ok /\ Failed)
    /\ Len(shader.params) = CountCalls(Len(trace), IsParamCall)

C8_Witness ==
    /\ result = [tag |-> "Panic", error |-> "Unsupported param type"]
    /\ Len(trace) = 2
    /\ IsMatrixParam(LastCall.at)
    /\ LastCall.at[3] = 6
    /\ Len(shader.params) = 1

NonZero(d, lo, hi) == Len(d) >= hi /\ \E j \in lo..hi : d[j] # 0

GenericOpcodes == (1..62) \ {48, 49, 50, 52, 53, 54}

\* the instruction at the head of d has a must-be-zero field that is not zero
MustBeZeroViolated(d) ==
    \/ d[1] = OpNop /\ (NonZero(d, 2, 5) \/ NonZero(d, 6, 7))
    \/ d[1] \in {OpElse, OpEndIf} /\ (NonZero(d, 2, 5) \/ NonZero(d, 6, 8))
    \/ d[1] = OpIf /\ (NonZero(d, 2, 4) \/ NonZero(d, 8, 8))
    \/ d[1] \in GenericOpcodes /\ NonZero(d, 8, 8)

\* C9: a nonzero must-be-zero field (Nop: 32-bit and 16-bit; Else, EndIf:
\* 32-bit and 24-bit; If: leading 24-bit and trailing byte; generic opcodes:
\* trailing byte) fails the decode and the operation is not appended.
C9_ReservedFields ==
    /\ \A i \in DOMAIN trace :
          MustBeZeroViolated(trace[i].at) => (~trace[i].ok /\ Failed)
    /\ Len(shader.operations) = CountCalls(Len(trace), IsOperationCall)

C9_Witness ==
    /\ Failed
    /\ Len(trace) = 1
    /\ LastCall.at = <<54, 0, 0, 0, 0, 0, 0, 1>>
    /\ shader.operations = <<>>

Accepted(raw) == raw \in 0..62 \/ raw \in 160..165

UnknownOpcodeError == [tag |-> "Panic", error |-> "Unknown opcode"]

\* the fields of a generic instruction at the head of d are all present, the
\* trailing byte is zero and the matrix flag is clear
GenericWellFormed(d) ==
    /\ d[1] \in GenericOpcodes
    /\ Len(d) >= 8
    /\ d[8] = 0
    /\ (d[4] \div 4) % 4 = 0

\* C10: an opcode byte is accepted iff it is in 0x00..0x3E or 0xA0..0xA5; any
\* other byte at an instruction boundary fails the decode as an unknown
\* opcode and appends no operation, parameter or metadata entry.  Every
\* byte of 0x01..0x3E except 0x30, 0x31, 0x32, 0x34, 0x35, 0x36 (so Loop,
\* 0x33, too) is decoded by the generic grammar into a Normal operation
\* carrying that opcode.
C10_OpcodeTable ==
    /\ \A i \in DOMAIN trace :
          LET e == trace[i] IN
          /\ ~Accepted(e.raw) =>
                (~e.ok /\ result = UnknownOpcodeError /\ e.pushed = <<>>)
          /\ (Accepted(e.raw) /\ ~e.ok) => result # UnknownOpcodeError
          /\ GenericWellFormed(e.at) =>
                /\ e.ok
                /\ LET op == shader.operations[CountCalls(i, IsOperationCall)]
                   IN  /\ op.op = "Normal"
                       /\ op.opcode = e.raw
                       /\ op.dst.index = (e.at[2] + 256 * e.at[3]) % 32768
                       /\ op.src.index = (e.at[5] + 256 * e.at[6]) % 32768
                       /\ Len(op.src.channels) = (e.at[4] % 4) + 1
                /\ (IF i < Len(trace) THEN trace[i + 1].at ELSE data)
                       = Drop(e.at, 8)
    /\ Len(shader.operations) = CountCalls(Len(trace), IsOperationCall)
    /\ Len(shader.params) = CountCalls(Len(trace), IsParamCall)

C10_Witness ==
    /\ result = UnknownOpcodeError
    /\ Len(trace) = 2
    /\ trace[1].raw = OpLoop
    /\ trace[1].ok
    /\ LastCall.raw = 63
    /\ Len(shader.operations) = 1
    /\ shader.operations[1].opcode = OpLoop

----------------------------------------------------------------------------
(* Termination                                                              *)

\* the bytes left after the i-th call
AfterCall(i) == IF i < Len(trace) THEN trace[i + 1].at ELSE data

CallsBounded ==
    /\ \A i \in DOMAIN trace :
          /\ trace[i].at # <<>>
          /\ trace[i].ok => Len(AfterCall(i)) < Len(trace[i].at)
    /\ trace # <<>> => Len(trace) <= Len(trace[1].at)

\* C11: the decode loop terminates on every input, returning a Program or
\* failing: read_op is called only while unread bytes remain, each call
\* fails or consumes at least one byte, and the number of calls never
\* exceeds the length of the buffer.
C11_Terminates ==
    /\ []CallsBounded
    /\ [][result = Running /\ (result' = Running => Len(data') < Len(data))]_vars
    /\ <>(result # Running)

C11_Witness ==
    /\ result.tag = "Ok"
    /\ Len(trace) = MaxLiveInstrs
    /\ \A i \in DOMAIN trace : trace[i].raw = OpPBJParamTexture
    /\ data = <<>>

----------------------------------------------------------------------------
(* What the header and metadata opcodes leave alone                         *)

\* a step in which read_op was called and returned Ok
DecodedStep == result = Running /\ data # <<>> /\ result' = Running

\* C12: a Meta opcode (PBJMeta1 or PBJMeta2) that decodes appends exactly one
\* entry at the end of the pending list and leaves the parameters, their
\* metadata, the program metadata, the operations, the name and the version
\* as they were; Name changes only the name and Version only the version,
\* and neither flushes the pending list.
C12_HeaderFrame ==
    [][ DecodedStep =>
          /\ data[1] \in {OpPBJMeta1, OpPBJMeta2} =>
                /\ shader' = shader
                /\ Len(metadata') = Len(metadata) + 1
                /\ SubSeq(metadata', 1, Len(metadata)) = metadata
                /\ metadata'[Len(metadata')].value.ty = data[2]
          /\ data[1] = OpName =>
                /\ metadata' = metadata
                /\ shader' = [shader EXCEPT !.name = shader'.name]
                /\ shader'.name = SubSeq(data, 4, 3 + data[2] + 256 * data[3])
          /\ data[1] = OpVersion =>
                /\ metadata' = metadata
                /\ shader' = [shader EXCEPT !.version = shader'.version]
      ]_vars

C12_Witness ==
    /\ result = Running
    /\ [i \in DOMAIN trace |-> trace[i].raw] = <<161, 160, 162, 164>>
    /\ trace[4].ok
    /\ Len(metadata) = 2
    /\ metadata[2].key = <<98>>
    /\ shader.name = <<65, 66>>
    /\ shader.params[1].metadata = <<>>

----------------------------------------------------------------------------
(* Load and arithmetic instructions                                         *)

\* the operation appended by the i-th call
OperationOf(i) == shader.operations[CountCalls(i, IsOperationCall)]

\* C13: for a LoadIntOrFloat with destination word W and mask byte M, a
\* nonzero low nibble of M fails the decode and no operation is appended;
\* otherwise, the four value bytes being there, exactly one operation is
\* appended, LoadInt iff bit 0x8000 of W is set and LoadFloat iff it is
\* clear, with destination read_dst_reg(W, M >> 4), and the four value bytes
\* are consumed in both cases (little-endian for the int, big-endian for the
\* float).
C13_LoadIntOrFloat ==
    /\ \A i \in DOMAIN trace :
          LET e == trace[i]
              at == e.at
          IN  (e.raw = OpLoadIntOrFloat /\ Len(at) >= 4) =>
                LET W == at[2] + 256 * at[3]
                    M == at[4]
                IN  /\ M % 16 # 0 => (~e.ok /\ Failed)
                    /\ (M % 16 = 0 /\ Len(at) >= 8) =>
                          /\ e.ok
                          /\ (OperationOf(i).op = "LoadInt") <=> HighBitSet(W)
                          /\ (OperationOf(i).op = "LoadFloat") <=> ~HighBitSet(W)
                          /\ OperationOf(i).dst = read_dst_reg(W, M \div 16)
                          /\ OperationOf(i).val =
                                IF HighBitSet(W)
                                THEN Word32(at[5], at[6], at[7], at[8])
                                ELSE Word32(at[8], at[7], at[6], at[5])
                          /\ AfterCall(i) = Drop(at, 8)
    /\ Len(shader.operations) = CountCalls(Len(trace), IsOperationCall)

C13_Witness ==
    /\ result.tag = "Ok"
    /\ Len(trace) = 1
    /\ trace[1].at = <<50, 1, 128, 160, 1, 2, 3, 4>>
    /\ shader.operations =
          <<[op |-> "LoadInt",
             dst |-> [index |-> 1, channels |-> <<"R", "B">>, kind |-> "Int"],
             val |-> 67305985]>>


\* C14: for a generic arithmetic/logic opcode with mask byte M, a nonzero
\* (M >> 2) & 3 fails the decode and no operation is appended; otherwise (the
\* fields being there and the trailing byte zero) the appended Normal
\* operation has a source of exactly (M & 3) + 1 channels decoded from the
\* 24-bit source word and a destination whose channels are those selected by
\* M >> 4: the source has 1 to 4 channels, the destination 0 to 4.
C14_GenericOperands ==
    /\ \A i \in DOMAIN trace :
          LET e == trace[i]
              at == e.at
          IN  (e.raw \in GenericOpcodes /\ Len(at) >= 4) =>
                LET M == at[4] IN
                /\ (M \div 4) % 4 # 0 => (~e.ok /\ Failed)
                /\ GenericWellFormed(at) =>
                      LET op == OperationOf(i)
                          N == (M % 4) + 1
                      IN  /\ e.ok
                          /\ op.op = "Normal"
                          /\ Len(op.src.channels) = N
                          /\ N \in 1..4
                          /\ \A k \in 0..(N - 1) :
                                op.src.channels[k + 1] =
                                    RGBA[((at[7] \div (2 ^ (6 - 2 * k))) % 4) + 1]
                          /\ op.src.index = (at[5] + 256 * at[6]) % 32768
                          /\ (op.src.kind = "Int") <=> (at[6] >= 128)
                          /\ Len(op.dst.channels) \in 0..4
                          /\ op.dst.channels =
                                SelectSeq(RGBA, LAMBDA c :
                                    ((M \div 16) \div (2 ^ (4 - ChannelPos(c)))) % 2 = 1)
                          /\ op.dst.index = (at[2] + 256 * at[3]) % 32768
    /\ Len(shader.operations) = CountCalls(Len(trace), IsOperationCall)

C14_Witness ==
    /\ result.tag = "Ok"
    /\ Len(trace) = 1
    /\ trace[1].at = <<1, 1, 128, 163, 2, 0, 27, 0>>
    /\ shader.operations =
          <<[op |-> "Normal", opcode |-> 1,
             dst |-> [index |-> 1, channels |-> <<"R", "B">>, kind |-> "Int"],
             src |-> [index |-> 2, channels |-> <<"R", "G", "B", "A">>,
                      kind |-> "Float"]]>>

====
